---- MODULE Spec2Model ----
(***************************************************************************)
(* A model of cephadm's SMB daemon form (cephadmlib/daemons/smb.py): the   *)
(* SMB instance object, its lazily validated Config, the memoized          *)
(* ContainerLayout, the _NetworkMapper and the files prepare_data_dir      *)
(* writes.                                                                 *)
(*                                                                         *)
(* Python values are modelled as follows.                                  *)
(*   Optional[T]   a sequence of length <= 1: <<>> is None, <<x>> is x     *)
(*   List[T]       a sequence                                              *)
(*   Dict[str, T]  a function whose DOMAIN is the set of keys              *)
(*   str           a TLA+ string; metrics_image, which the code strips, is *)
(*                 a sequence of one-character strings                     *)
(*   an object     a record of its fields; objects whose identity matters  *)
(*                 (the ContainerLayout and the role objects) carry an id  *)
(*                 allocated from a heap counter                           *)
(* A method is an operator from the machine state (the SMB object, the     *)
(* disk, the heap counter, the raised exception and the return value) to   *)
(* the machine state after the call; a raised exception is carried in the   *)
(* field "raised" and ends every caller, as Python's propagation does.     *)
(***************************************************************************)
EXTENDS Integers, Sequences, FiniteSets, TLC

VARIABLES
    smb,            \* the SMB instance: the fields SMB.__init__ sets
    host_networks,  \* what list_networks(ctx) returns on this host
    disk,           \* the data directory: directories made and files written
    heap,           \* number of role/layout objects allocated so far
    raised,         \* Optional exception raised by the last operation
    ret,            \* return value (or appended fragment) of the last operation
    calls           \* counters: list_networks fetches, _layout and prepare_data_dir
                    \* calls, writes of each generated file

vars == <<smb, host_networks, disk, heap, raised, ret, calls>>

----------------------------------------------------------------------------
(* Bounds of the model *)

\* longest features list drawn for the raw config
MaxFeatures == 2
\* longest destinations list of one cluster public IP
MaxDests == 2
\* calls of _layout, and calls of prepare_data_dir, made on one instance
MaxCalls == 2

----------------------------------------------------------------------------
(* Program constants *)

\* SMB.__init__: self.smb_port = 445
SMB_PORT == 445
\* SMB.__init__: self.metrics_port = 9922
METRICS_PORT == 9922

None == <<>>
Some(x) == <<x>>

\* class Features(enum.Enum)
Features == {"domain", "clustered"}

\* Features.valid(value): whether cls(value) succeeds
FeaturesValid(value) == value \in Features

RECURSIVE SeqsUpTo(_, _)
\* all sequences over S of length <= n
SeqsUpTo(S, n) ==
    IF n = 0 THEN {<<>>}
    ELSE LET shorter == SeqsUpTo(S, n - 1)
         IN shorter \cup {Append(s, x) : s \in {t \in shorter : Len(t) = n - 1}, x \in S}

Range(s) == {s[i] : i \in 1..Len(s)}

----------------------------------------------------------------------------
(* str.strip() on a sequence of characters *)

Whitespace == {" ", "\t", "\n"}

RECURSIVE lstrip(_)
lstrip(s) ==
    IF s # <<>> /\ Head(s) \in Whitespace THEN lstrip(Tail(s)) ELSE s

RECURSIVE rstrip(_)
rstrip(s) ==
    IF s # <<>> /\ s[Len(s)] \in Whitespace
    THEN rstrip(SubSeq(s, 1, Len(s) - 1))
    ELSE s

strip(s) == rstrip(lstrip(s))

----------------------------------------------------------------------------
(* Inputs: the raw config record fetch_configs(ctx) returns, the rank info and
   the host's network inventory *)

FeatureTags == {"domain", "clustered", "bogus", "junk"}

\* raw 'metrics_image' values: unset, blank, an image, an image with padding
MetricsImages == {<<>>, <<" ">>, <<"i", "m", "g">>, <<" ", "i", "m", "g", " ">>}

\* raw 'metrics_port' values
MetricsPorts == {-1, 0, METRICS_PORT}

NetNames == {"netA", "netB", "netC"}

\* one raw 'cluster_public_addrs' item: a dict with address and destinations
RawAddr(address, destinations) ==
    [type |-> "dict", address |-> address, destinations |-> destinations]

\* a raw item that is not a dict, which ClusterPublicIP.convert rejects
MalformedAddr == [type |-> "str", address |-> "", destinations |-> <<>>]

\* raw 'cluster_public_addrs' lists of the instance life cycle specification
RawAddrLists ==
    { <<>>,
      <<RawAddr("192.168.76.200", <<"netA">>)>>,
      <<RawAddr("192.168.76.200", <<"netC", "netB">>),
        RawAddr("192.168.76.201", <<"netA", "netB">>)>>,
      <<RawAddr("192.168.76.200", <<"netA">>), MalformedAddr>> }

\* raw 'cluster_public_addrs' lists of the network mapper specification: up to
\* two addresses, each with every destinations list of length <= MaxDests
DestLists == SeqsUpTo(NetNames, MaxDests)

MapperAddrLists ==
    {<<>>}
    \cup {<<RawAddr("192.168.76.200", d)>> : d \in DestLists}
    \cup {<<RawAddr("192.168.76.200", d), RawAddr("192.168.76.201", e)>> :
            d \in DestLists, e \in DestLists}

EmptyDict == [k \in {} |-> <<>>]

\* list_networks(ctx) results: network name -> devices
HostInventories ==
    { [n \in {"netA", "netB"} |->
           IF n = "netA" THEN <<"eth0">> ELSE <<"eth1", "eth2">>],
      [n \in {"netA", "netB"} |->
           IF n = "netA" THEN <<"eth0">> ELSE <<"eth0", "eth1">>],
      EmptyDict }

\* raw 'files' mappings: path -> content
RawFiles == { EmptyDict, [p \in {"smb.conf.d/extra.conf"} |-> "[global]"] }

\* context_getters.fetch_rank_info(ctx) or (-1, -1)
RankInfos == { <<-1, -1>>, <<0, 3>> }

\* raw 'user_sources' lists
UserSourceLists == { <<>>, <<"rados://pool/ns/users">>,
                     <<"rados://pool/ns/users", "rados://pool/ns/more">> }

\* raw 'config_auth_entity' values: unset and set
AuthEntities == {"", "client.smb"}

\* EndPoint(ip, port)
EndPoint(ip, port) == [ip |-> ip, port |-> port]

\* endpoint lists the deployment hands to customize_container_endpoints: empty,
\* holding the SMB port, holding the metrics port and another, holding both
EndpointLists ==
    { <<>>,
      <<EndPoint("10.0.0.5", SMB_PORT)>>,
      <<EndPoint("0.0.0.0", METRICS_PORT), EndPoint("10.0.0.5", 8080)>>,
      <<EndPoint("0.0.0.0", SMB_PORT), EndPoint("0.0.0.0", METRICS_PORT)>> }

RawConfigs(ids, uris, features, images, ports, addrs, files) ==
    [ cluster_id : ids,
      config_uri : uris,
      user_sources : {<<>>},
      features : features,
      files : files,
      config_auth_entity : {"client.smb"},
      metrics_image : images,
      metrics_port : ports,
      cluster_public_addrs : addrs ]

\* raw configs that differ from those of RawConfigs in user_sources and
\* config_auth_entity
WithSources(raw_configs, sources, entities) ==
    { [rc EXCEPT !.user_sources = us, !.config_auth_entity = e] :
        rc \in raw_configs, us \in sources, e \in entities }

----------------------------------------------------------------------------
(* The machine state the methods act on *)

State ==
    [ smb |-> smb, host_networks |-> host_networks, disk |-> disk,
      heap |-> heap, raised |-> raised, ret |-> ret, calls |-> calls ]

\* raise exc: the exception is carried until the operation ends
Raise(st, exc) == [st EXCEPT !.raised = Some(exc)]

\* raise Error(msg); values are the offending values the message lists
Error(msg, values) == [type |-> "Error", msg |-> msg, values |-> values]

AssertionError == [type |-> "AssertionError", msg |-> "", values |-> {}]

\* SMB.__init__ and _NetworkMapper.__init__
NewSMB(raw_configs, rank_info) ==
    [ _instance_cfg |-> None,
      _files |-> EmptyDict,
      _raw_configs |-> raw_configs,
      _cached_layout |-> None,
      _rank_info |-> rank_info,
      smb_port |-> SMB_PORT,
      metrics_port |-> METRICS_PORT,
      _network_mapper |-> [_networks |-> EmptyDict] ]

----------------------------------------------------------------------------
(* _NetworkMapper.load *)

\* a load that fetches nothing and leaves the inventory as it was made
load_skipped(st) == st

\* self._networks = list_networks(self._ctx)
load(st) ==
    [st EXCEPT !.smb._network_mapper._networks = st.host_networks,
               !.calls.fetches = @ + 1]

----------------------------------------------------------------------------
(* SMB.validate *)

\* ClusterPublicIP.convert: the asserts pass only for a dict
ConvertOk(item) == item.type = "dict"

\* ClusterPublicIP.convert: cls(address, destinations)
ClusterPublicIP(address, destinations) ==
    [address |-> address, destinations |-> destinations]

convert(item) == ClusterPublicIP(item.address, item.destinations)

\* only the first invalid feature of the list
invalid_features_first(instance_features) ==
    LET bad == SelectSeq(instance_features, LAMBDA f : ~FeaturesValid(f))
    IN  IF bad = <<>> THEN {} ELSE {Head(bad)}

\* invalid_features = {f for f in instance_features if not Features.valid(f)}
invalid_features(instance_features) ==
    {f \in Range(instance_features) : ~FeaturesValid(f)}

\* the three configuration checks, in the order validate makes them: the first
\* failing one raises
validate_checks(configs) ==
    IF configs.cluster_id = ""
    THEN Some(Error("invalid instance (cluster) id", {}))
    ELSE IF configs.config_uri = ""
    THEN Some(Error("invalid configuration source uri", {}))
    ELSE IF invalid_features(configs.features) # {}
    THEN Some(Error("invalid instance features", invalid_features(configs.features)))
    ELSE None

\* Config(...) as validate constructs it
NewConfig(self, configs, _public_addrs) ==
    [ instance_id |-> configs.cluster_id,
      source_config |-> configs.config_uri,
      user_sources |-> configs.user_sources,
      domain_member |-> "domain" \in Range(configs.features),
      clustered |-> "clustered" \in Range(configs.features),
      smb_port |-> self.smb_port,
      ceph_config_entity |-> configs.config_auth_entity,
      metrics_image |-> configs.metrics_image,
      metrics_port |-> configs.metrics_port,
      rank |-> self._rank_info[1],
      rank_generation |-> self._rank_info[2],
      cluster_public_addrs |-> _public_addrs ]

\* validate past its early return: the checks, the conversion of the public
\* addresses, the inventory load and the construction of the Config
validate_body(st) ==
    LET configs == st.smb._raw_configs
        failed == validate_checks(configs)
        raw_addrs == configs.cluster_public_addrs
    IN  IF failed # None THEN Raise(st, failed[1])
        ELSE IF \E i \in 1..Len(raw_addrs) : ~ConvertOk(raw_addrs[i])
        THEN Raise(st, AssertionError)
        ELSE LET _public_addrs == [i \in 1..Len(raw_addrs) |-> convert(raw_addrs[i])]
                 st1 == IF _public_addrs # <<>> THEN load(st) ELSE st
             IN  [st1 EXCEPT
                    !.smb._instance_cfg = Some(NewConfig(st.smb, configs, _public_addrs)),
                    !.smb._files = configs.files]

\* validate without its early return
validate_unguarded(st) == validate_body(st)

\* validate storing the files mapping before it checks anything
validate_stores_files_first(st) ==
    IF st.smb._instance_cfg # None THEN st
    ELSE validate_body([st EXCEPT !.smb._files = st.smb._raw_configs.files])

validate(st) ==
    IF st.smb._instance_cfg # None THEN st ELSE validate_body(st)

----------------------------------------------------------------------------
(* SMB._cfg *)

\* the _cfg property: validate, then the stored Config; the caller reads
\* st.smb._instance_cfg[1] when nothing was raised
_cfg(st) == validate(st)

----------------------------------------------------------------------------
(* The role classes and SMB._layout *)

\* name() of each role class
ContainerName(cls) ==
    CASE cls = "SMBDContainer" -> "smbd"
      [] cls = "WinbindContainer" -> "winbindd"
      [] cls = "ConfigInitContainer" -> "config"
      [] cls = "MustJoinContainer" -> "mustjoin"
      [] cls = "ConfigWatchContainer" -> "configwatch"
      [] cls = "SMBMetricsContainer" -> "smbmetrics"
      [] cls = "CTDBMigrateInitContainer" -> "ctdbMigrate"
      [] cls = "CTDBMustHaveNodeInitContainer" -> "ctdbMustHaveNode"
      [] cls = "CTDBDaemonContainer" -> "ctdbd"
      [] cls = "CTDBNodeMonitorContainer" -> "ctdbNodes"

\* a role constructor call, with the list of _layout it is appended to
Construct(cls, list, image) == [cls |-> cls, list |-> list, image |-> image]

\* init_ctrs.append(ConfigInitContainer(cfg)); ctrs.append(ConfigWatchContainer(cfg))
layout_always(cfg) ==
    << Construct("ConfigInitContainer", "init_ctrs", <<>>),
       Construct("ConfigWatchContainer", "ctrs", <<>>) >>

\* if self._cfg.domain_member: ...
layout_domain(cfg) ==
    IF cfg.domain_member
    THEN << Construct("MustJoinContainer", "init_ctrs", <<>>),
            Construct("WinbindContainer", "ctrs", <<>>) >>
    ELSE <<>>

\* the metrics step testing the port for truth instead of > 0
layout_metrics_truthy_port(cfg) ==
    LET metrics_image == strip(cfg.metrics_image)
    IN  IF metrics_image # <<>> /\ cfg.metrics_port # 0
        THEN << Construct("SMBMetricsContainer", "ctrs", metrics_image) >>
        ELSE <<>>

\* the metrics step without the strip of the image
layout_metrics_unstripped(cfg) ==
    IF cfg.metrics_image # <<>> /\ cfg.metrics_port > 0
    THEN << Construct("SMBMetricsContainer", "ctrs", cfg.metrics_image) >>
    ELSE <<>>

\* metrics_image = cfg.metrics_image.strip(); if metrics_image and metrics_port > 0: ...
layout_metrics(cfg) ==
    LET metrics_image == strip(cfg.metrics_image)
        metrics_port == cfg.metrics_port
    IN  IF metrics_image # <<>> /\ metrics_port > 0
        THEN << Construct("SMBMetricsContainer", "ctrs", metrics_image) >>
        ELSE <<>>

\* the clustered step with the two CTDB sidecars appended in the other order
layout_clustered_swapped(cfg) ==
    IF cfg.clustered
    THEN << Construct("CTDBMigrateInitContainer", "init_ctrs", <<>>),
            Construct("CTDBMustHaveNodeInitContainer", "init_ctrs", <<>>),
            Construct("CTDBNodeMonitorContainer", "ctrs", <<>>),
            Construct("CTDBDaemonContainer", "ctrs", <<>>) >>
    ELSE <<>>

\* if self._cfg.clustered: init_ctrs += [...]; ctrs += [...]
layout_clustered(cfg) ==
    IF cfg.clustered
    THEN << Construct("CTDBMigrateInitContainer", "init_ctrs", <<>>),
            Construct("CTDBMustHaveNodeInitContainer", "init_ctrs", <<>>),
            Construct("CTDBDaemonContainer", "ctrs", <<>>),
            Construct("CTDBNodeMonitorContainer", "ctrs", <<>>) >>
    ELSE <<>>

\* the build with the domain step moved behind the metrics step
layout_constructs_domain_late(cfg) ==
    layout_always(cfg) \o layout_metrics(cfg) \o layout_domain(cfg)
        \o layout_clustered(cfg)
        \o << Construct("SMBDContainer", "primary", <<>>) >>

\* every constructor call of one _layout build, in the order the code makes them
layout_constructs(cfg) ==
    layout_always(cfg) \o layout_domain(cfg) \o layout_metrics(cfg)
        \o layout_clustered(cfg)
        \o << Construct("SMBDContainer", "primary", <<>>) >>

\* the objects one build allocates: the k-th constructed role gets id heap + k
\* and the ContainerLayout the id after the last role
build_layout(cfg, heap0) ==
    LET made == layout_constructs(cfg)
        objs == [k \in 1..Len(made) |->
                    [cls |-> made[k].cls, image |-> made[k].image,
                     list |-> made[k].list, id |-> heap0 + k]]
        Role(o) == [cls |-> o.cls, image |-> o.image, id |-> o.id]
        pick(list) == LET sel == SelectSeq(objs, LAMBDA o : o.list = list)
                      IN  [k \in 1..Len(sel) |-> Role(sel[k])]
    IN  [ id |-> heap0 + Len(made) + 1,
          init_containers |-> pick("init_ctrs"),
          primary |-> pick("primary")[1],
          supplemental |-> pick("ctrs") ]

\* _layout past its cache check
layout_build(st) ==
    LET s1 == _cfg([st EXCEPT !.calls.layouts = @ + 1])
    IN  IF s1.raised # None THEN s1
        ELSE LET layout == build_layout(s1.smb._instance_cfg[1], s1.heap)
             IN  [s1 EXCEPT !.smb._cached_layout = Some(layout),
                            !.heap = layout.id,
                            !.ret = Some(layout)]

\* _layout with the cache check lost: every call builds
layout_uncached(st) == layout_build(st)

\* SMB._layout: ret is the ContainerLayout returned
_layout(st) ==
    IF st.smb._cached_layout # None
    THEN [st EXCEPT !.ret = st.smb._cached_layout, !.calls.layouts = @ + 1]
    ELSE layout_build(st)

----------------------------------------------------------------------------
(* Config.config_uris and the environment of the role classes *)

\* Config.config_uris
config_uris(cfg) ==
    LET uris == <<cfg.source_config>> \o cfg.user_sources
    IN  IF cfg.clustered
        THEN Append(uris, "/etc/samba/container/ctdb.json")
        ELSE uris

RECURSIVE json_items(_)
\* the items of a JSON array of strings, separated as json.dumps separates them
json_items(items) ==
    IF items = <<>> THEN ""
    ELSE "\"" \o Head(items) \o "\""
         \o (IF Tail(items) = <<>> THEN "" ELSE ", " \o json_items(Tail(items)))

\* json.dumps of a list of strings that need no escaping
json_dumps(items) == "[" \o json_items(items) \o "]"

\* str(n) of an int
str(n) == ToString(n)

\* the rank variables set only for a rank above zero
envs_rank_positive(cfg) ==
    << <<"SAMBA_CONTAINER_ID", cfg.instance_id>>,
       <<"SAMBACC_CONFIG", json_dumps(config_uris(cfg))>>,
       <<"SAMBACC_CTDB", "ctdb-is-experimental">> >>
    \o (IF cfg.ceph_config_entity # ""
        THEN << <<"SAMBACC_CEPH_ID", "name=" \o cfg.ceph_config_entity>> >>
        ELSE <<>>)
    \o (IF cfg.rank > 0
        THEN << <<"RANK", str(cfg.rank)>>,
                <<"RANK_GENERATION", str(cfg.rank)>>,
                <<"NODE_NUMBER", str(cfg.rank)>> >>
        ELSE <<>>)

\* SambaContainerCommon.envs: the dict as the sequence of its items in
\* insertion order; every key is assigned once, so each assignment adds an
\* item at the end, and NODE_NUMBER is read back from RANK
envs(cfg) ==
    << <<"SAMBA_CONTAINER_ID", cfg.instance_id>>,
       <<"SAMBACC_CONFIG", json_dumps(config_uris(cfg))>>,
       <<"SAMBACC_CTDB", "ctdb-is-experimental">> >>
    \o (IF cfg.ceph_config_entity # ""
        THEN << <<"SAMBACC_CEPH_ID", "name=" \o cfg.ceph_config_entity>> >>
        ELSE <<>>)
    \o (IF cfg.rank >= 0
        THEN << <<"RANK", str(cfg.rank)>>,
                <<"RANK_GENERATION", str(cfg.rank)>>,
                <<"NODE_NUMBER", str(cfg.rank)>> >>
        ELSE <<>>)

\* envs_list of a role of class cls made for cfg: SMBMetricsContainer inherits
\* ContainerCommon.envs_list, every other role class
\* SambaContainerCommon.envs_list
envs_list(cls, cfg) ==
    IF cls = "SMBMetricsContainer" THEN <<>>
    ELSE LET items == envs(cfg)
         IN  [i \in 1..Len(items) |-> items[i][1] \o "=" \o items[i][2]]

----------------------------------------------------------------------------
(* SMB.customize_container_mounts *)

\* the container paths mounted, after validate
mount_targets(cfg) ==
    { "/etc/samba/container:z", "/var/lib/samba:z", "/run:z",
      "/etc/ceph/ceph.conf:z", "/etc/ceph/keyring:z" }
    \cup (IF cfg.clustered
          THEN { "/var/lib/ctdb/persistent:z", "/var/run/ctdb:z",
                 "/var/lib/ctdb/volatile:z", "/etc/ctdb:z",
                 "/etc/samba/smb.conf:z" }
          ELSE {})

customize_container_mounts(st) ==
    LET s1 == validate(st)
    IN  IF s1.raised # None THEN s1
        ELSE [s1 EXCEPT !.ret = Some([type |-> "mounts",
                                      value |-> mount_targets(s1.smb._instance_cfg[1])])]

----------------------------------------------------------------------------
(* The container list accessors and the customize hooks *)

\* _to_init_container / _to_sidecar_container of one role made for cfg: the
\* sub-identity name, the role object converted, its image, its environment
\* and its mounts
to_container(role, cfg, mounts) ==
    [ identity |-> ContainerName(role.cls), role |-> role.id,
      image |-> role.image, envs |-> envs_list(role.cls, cfg),
      volume_mounts |-> mounts ]

\* [self._to_..._container(ctx, smb_ctr) for smb_ctr in self._layout().<list>]:
\* ret is the list returned, with the id of the layout object it was made from
containers_of(st, list) ==
    LET s1 == _layout(st)
    IN  IF s1.raised # None THEN s1
        ELSE LET layout == s1.ret[1]
                 roles == IF list = "init" THEN layout.init_containers
                          ELSE layout.supplemental
                 s2 == customize_container_mounts(s1)
             IN  [s2 EXCEPT !.ret =
                    Some([type |-> "containers", layout |-> layout.id,
                          value |-> [k \in 1..Len(roles) |->
                                        to_container(roles[k], s2.smb._instance_cfg[1],
                                                     s2.ret[1].value)]])]

init_containers(st) == containers_of(st, "init")

sidecar_containers(st) == containers_of(st, "sidecar")

\* customize_container_envs, customize_process_args, customize_container_args:
\* each extends the caller's list with a derivation (what) of
\* self._layout().primary; ret names the role object used and the layout object
\* it was taken from
customize_primary(st, what) ==
    LET s1 == _layout(st)
    IN  IF s1.raised # None THEN s1
        ELSE [s1 EXCEPT !.ret = Some([type |-> "extension", layout |-> s1.ret[1].id,
                                      value |-> [what |-> what,
                                                 of |-> s1.ret[1].primary.id]])]

\* envs.extend(clayout.primary.envs_list()) once _layout has returned: ret
\* carries the list appended
extend_envs(s1) ==
    IF s1.raised # None THEN s1
    ELSE [s1 EXCEPT !.ret[1].value =
            [what |-> "envs_list", of |-> s1.smb._cached_layout[1].primary.id,
             envs |-> envs_list(s1.smb._cached_layout[1].primary.cls,
                                s1.smb._instance_cfg[1])]]

\* customize_container_envs
customize_container_envs(st) == extend_envs(customize_primary(st, "envs_list"))

----------------------------------------------------------------------------
(* SMB.customize_container_endpoints *)

\* any(ep.port == port for ep in endpoints)
has_port(endpoints, port) == \E i \in 1..Len(endpoints) : endpoints[i].port = port

\* the hook does not validate: it reads self.smb_port and self.metrics_port,
\* the fields __init__ set, and appends to the caller's list; ret is the list
\* given and the list after the call
customize_container_endpoints(st, endpoints) ==
    LET self == st.smb
        e1 == IF ~has_port(endpoints, self.smb_port)
              THEN Append(endpoints, EndPoint("0.0.0.0", self.smb_port))
              ELSE endpoints
        e2 == IF self.metrics_port > 0
              THEN IF ~has_port(e1, self.metrics_port)
                   THEN Append(e1, EndPoint("0.0.0.0", self.metrics_port))
                   ELSE e1
              ELSE e1
    IN  [st EXCEPT !.ret = Some([type |-> "endpoints",
                                 value |-> [given |-> endpoints, now |-> e2]])]

----------------------------------------------------------------------------
(* _NetworkMapper._convert and for_sambacc *)

RECURSIVE devices_for_break(_, _)
\* the loop of _convert leaving at the first missing destination (break for
\* continue)
devices_for_break(_networks, destinations) ==
    IF destinations = <<>> THEN <<>>
    ELSE LET net == Head(destinations)
         IN  IF net \notin DOMAIN _networks THEN <<>>
             ELSE _networks[net] \o devices_for_break(_networks, Tail(destinations))

RECURSIVE devices_for(_, _)
\* the loop of _convert: a destination missing from the inventory is skipped,
\* a present one appends each of its devices
devices_for(_networks, destinations) ==
    IF destinations = <<>> THEN <<>>
    ELSE LET net == Head(destinations)
         IN  (IF net \notin DOMAIN _networks THEN <<>> ELSE _networks[net])
             \o devices_for(_networks, Tail(destinations))

\* _convert: ClusterPublicIP(addr.address, devs)
_convert(_networks, addr) ==
    ClusterPublicIP(addr.address, devices_for(_networks, addr.destinations))

\* for_sambacc storing the converted addresses back into the Config
for_sambacc_in_place(st) ==
    LET cfg == st.smb._instance_cfg[1]
        _networks == st.smb._network_mapper._networks
        addrs == [k \in 1..Len(cfg.cluster_public_addrs) |->
                     _convert(_networks, cfg.cluster_public_addrs[k])]
    IN  IF cfg.cluster_public_addrs = <<>> THEN [st EXCEPT !.ret = Some(<<>>)]
        ELSE [st EXCEPT
                !.smb._instance_cfg[1].cluster_public_addrs = addrs,
                !.ret = Some([k \in 1..Len(addrs) |->
                                [address |-> addrs[k].address,
                                 interfaces |-> addrs[k].destinations]])]

\* for_sambacc: ret is the list of {address, interfaces} records
for_sambacc(st) ==
    LET cfg == st.smb._instance_cfg[1]
        _networks == st.smb._network_mapper._networks
        addrs == [k \in 1..Len(cfg.cluster_public_addrs) |->
                     _convert(_networks, cfg.cluster_public_addrs[k])]
    IN  IF cfg.cluster_public_addrs = <<>> THEN [st EXCEPT !.ret = Some(<<>>)]
        ELSE [st EXCEPT !.ret =
                Some([k \in 1..Len(addrs) |->
                        [address |-> addrs[k].address,
                         interfaces |-> addrs[k].destinations]])]

----------------------------------------------------------------------------
(* SMB.prepare_data_dir and the two stub writers *)

\* file_utils.makedirs
makedirs(st, dir) == [st EXCEPT !.disk.dirs = @ \cup {dir}]

\* with file_utils.write_new(path) as fh: the file at path is replaced
write_new(st, path, content) ==
    [st EXCEPT !.disk.files =
        [p \in DOMAIN st.disk.files \cup {path} |->
            IF p = path THEN content ELSE st.disk.files[p]]]

\* file_utils.populate_files(data_dir, self._files, uid, gid)
populate_files(st) ==
    [st EXCEPT !.disk.files =
        [p \in DOMAIN st.disk.files \cup DOMAIN st.smb._files |->
            IF p \in DOMAIN st.smb._files THEN st.smb._files[p] ELSE st.disk.files[p]]]

\* _write_ctdb_stub_config(etc_samba_ctr / 'ctdb.json')
_write_ctdb_stub_config(st) ==
    LET s1 == for_sambacc(st)
        stub_config == [ samba_container_config |-> "v0",
                         nodes_cmd |-> "/usr/bin/samba-container ctdb-list-nodes",
                         public_addresses |-> s1.ret[1] ]
        s2 == write_new(s1, "etc-samba-container/ctdb.json", stub_config)
    IN  [s2 EXCEPT !.calls.ctdb_json = @ + 1, !.ret = None]

\* the smb.conf stub written only when the file does not exist yet
write_smb_conf_stub_if_missing(st) ==
    IF "ctdb/smb.conf" \in DOMAIN st.disk.files THEN st
    ELSE LET s1 == write_new(st, "ctdb/smb.conf",
                             <<"[global]", "config backend = registry">>)
         IN  [s1 EXCEPT !.calls.smb_conf = @ + 1]

\* _write_smb_conf_stub(ddir / 'ctdb/smb.conf')
_write_smb_conf_stub(st) ==
    LET s1 == write_new(st, "ctdb/smb.conf", <<"[global]", "config backend = registry">>)
    IN  [s1 EXCEPT !.calls.smb_conf = @ + 1]

prepare_data_dir(st) ==
    LET s0 == [st EXCEPT !.calls.prepares = @ + 1]
        s1 == validate(s0)
        s2 == makedirs(makedirs(makedirs(s1, "etc-samba-container"), "lib-samba"), "run")
        s3 == IF DOMAIN s2.smb._files # {} THEN populate_files(s2) ELSE s2
        s4 == makedirs(makedirs(makedirs(makedirs(s3, "ctdb/persistent"), "ctdb/run"),
                                "ctdb/volatile"), "ctdb/etc")
    IN  IF s1.raised # None THEN s1
        ELSE IF s3.smb._instance_cfg[1].clustered
        THEN _write_smb_conf_stub(_write_ctdb_stub_config(s4))
        ELSE s3

----------------------------------------------------------------------------
(* The operations the framework calls on one instance *)

\* a call starts with no exception pending and no return value
Call(st) == [st EXCEPT !.raised = None, !.ret = None]

Commit(st) ==
    /\ smb' = st.smb
    /\ host_networks' = st.host_networks
    /\ disk' = st.disk
    /\ heap' = st.heap
    /\ raised' = st.raised
    /\ ret' = st.ret
    /\ calls' = st.calls

Validate ==
    /\ Commit(validate(Call(State)))

InitContainers ==
    /\ calls.layouts < MaxCalls
    /\ Commit(init_containers(Call(State)))

SidecarContainers ==
    /\ calls.layouts < MaxCalls
    /\ Commit(sidecar_containers(Call(State)))

CustomizeContainerEnvs ==
    /\ calls.layouts < MaxCalls
    /\ Commit(customize_container_envs(Call(State)))

CustomizeProcessArgs ==
    /\ calls.layouts < MaxCalls
    /\ Commit(customize_primary(Call(State), "args"))

CustomizeContainerArgs ==
    /\ calls.layouts < MaxCalls
    /\ Commit(customize_primary(Call(State), "container_args"))

CustomizeContainerMounts ==
    /\ Commit(customize_container_mounts(Call(State)))

PrepareDataDir ==
    /\ calls.prepares < MaxCalls
    /\ Commit(prepare_data_dir(Call(State)))

\* the hook reads no field another operation writes, so the model lets it run
\* only until the data directory is first prepared
CustomizeContainerEndpoints ==
    /\ calls.prepares = 0
    /\ \E endpoints \in EndpointLists :
          Commit(customize_container_endpoints(Call(State), endpoints))

InitState(raw_configs, rank_info, inventory) ==
    /\ smb = NewSMB(raw_configs, rank_info)
    /\ host_networks = inventory
    /\ disk = [dirs |-> {}, files |-> EmptyDict]
    /\ heap = 0
    /\ raised = None
    /\ ret = None
    /\ calls = [fetches |-> 0, layouts |-> 0, prepares |-> 0, ctdb_json |-> 0, smb_conf |-> 0]

\* the instance life cycle: every kind of raw config, valid and invalid
Init ==
    \E raw_configs \in RawConfigs({"", "tank"}, {"", "rados://pool/ns/cfg"},
                                  SeqsUpTo(FeatureTags, MaxFeatures),
                                  {<<>>, <<"i", "m", "g">>}, {METRICS_PORT},
                                  RawAddrLists, RawFiles),
       inventory \in {inv \in HostInventories : "netA" \in DOMAIN inv} :
        InitState(raw_configs, <<-1, -1>>, inventory)

\* the layout builder: valid raw configs over every features list, metrics
\* image and metrics port
InitLayout ==
    \E raw_configs \in RawConfigs({"tank"}, {"rados://pool/ns/cfg"},
                                  SeqsUpTo(FeatureTags, MaxFeatures),
                                  MetricsImages, MetricsPorts,
                                  {<<>>}, {EmptyDict}),
       rank_info \in RankInfos :
        InitState(raw_configs, rank_info, EmptyDict)

\* the network mapper: clustered raw configs over every public address list
\* and host inventory
InitMapper ==
    \E raw_configs \in RawConfigs({"tank"}, {"rados://pool/ns/cfg"},
                                  {<<"clustered">>}, {<<>>}, {0},
                                  MapperAddrLists, {EmptyDict}),
       inventory \in HostInventories :
        InitState(raw_configs, <<0, 3>>, inventory)

\* the environment: valid raw configs over every features list of valid tags,
\* user sources list, auth entity and rank
InitEnvs ==
    \E raw_configs \in WithSources(RawConfigs({"tank"}, {"rados://pool/ns/cfg"},
                                               SeqsUpTo(Features, MaxFeatures),
                                               {<<>>, <<"i", "m", "g">>}, {METRICS_PORT},
                                               {<<>>}, {EmptyDict}),
                                    UserSourceLists, AuthEntities),
       rank_info \in RankInfos \cup {<<1, 1>>, <<2, 0>>} :
        InitState(raw_configs, rank_info, EmptyDict)

Next ==
    \/ Validate
    \/ InitContainers
    \/ SidecarContainers
    \/ CustomizeContainerEnvs
    \/ CustomizeProcessArgs
    \/ CustomizeContainerArgs
    \/ CustomizeContainerMounts
    \/ PrepareDataDir
    \/ CustomizeContainerEndpoints

Spec == Init /\ [][Next]_vars

SpecLayout == InitLayout /\ [][Next]_vars

SpecMapper == InitMapper /\ [][Next]_vars

SpecEnvs == InitEnvs /\ [][Next]_vars

----------------------------------------------------------------------------
(* Properties *)

HasCfg == smb._instance_cfg # None
Cfg == smb._instance_cfg[1]
HasLayout == smb._cached_layout # None
Layout == smb._cached_layout[1]

\* the role names of a list of role objects
Names(roles) == [k \in 1..Len(roles) |-> ContainerName(roles[k].cls)]
InitNames == Names(Layout.init_containers)
SupplementalNames == Names(Layout.supplemental)
PrimaryName == ContainerName(Layout.primary.cls)

\* the ids of every object of a layout
ObjectIds(layout) ==
    {layout.id, layout.primary.id}
    \cup {layout.init_containers[k].id : k \in 1..Len(layout.init_containers)}
    \cup {layout.supplemental[k].id : k \in 1..Len(layout.supplemental)}

\* C1: the Layout is built at most once per instance. Every object ever
\* allocated belongs to the one cached layout, a call of _layout that finds a
\* cached layout returns that very object, and once a layout is cached no step
\* replaces it or allocates another object.
C1_LayoutBuiltOnce ==
    /\ [](/\ ~HasLayout => heap = 0
          /\ HasLayout => /\ ObjectIds(Layout) = 1..heap
                          /\ Layout.id = heap)
    /\ [][ HasLayout =>
             /\ smb'._cached_layout = smb._cached_layout
             /\ heap' = heap
             /\ (calls'.layouts > calls.layouts /\ raised' = None) =>
                    /\ ret'[1].layout = Layout.id
                    /\ ret'[1].type = "extension" =>
                           ret'[1].value.of = Layout.primary.id
                    /\ ret'[1].type = "containers" =>
                           \A k \in 1..Len(ret'[1].value) :
                               ret'[1].value[k].role \in ObjectIds(Layout)
         ]_vars

\* C1 witness: _layout has been called twice and a layout is cached
C1_Witness ==
    /\ HasLayout
    /\ calls.layouts >= 2
    /\ raised = None
    /\ Layout.id = heap

\* a metrics image and a metrics port are both configured, as _layout reads them
MetricsConfigured == strip(Cfg.metrics_image) # <<>> /\ Cfg.metrics_port > 0

\* C2: with clustered = false and domain_member = false the init list is
\* exactly [config], the primary is smbd, and the supplemental list is exactly
\* [configwatch], followed by smbmetrics iff a metrics image is configured and
\* the metrics port is > 0.
C2_PlainLayout ==
    (HasLayout /\ ~Cfg.clustered /\ ~Cfg.domain_member) =>
        /\ InitNames = <<"config">>
        /\ PrimaryName = "smbd"
        /\ SupplementalNames =
              IF MetricsConfigured THEN <<"configwatch", "smbmetrics">>
              ELSE <<"configwatch">>

\* C2 witness: a plain layout with the metrics sidecar, and the port that is
\* not > 0 is in the inputs
C2_Witness ==
    /\ HasLayout /\ ~Cfg.clustered /\ ~Cfg.domain_member
    /\ SupplementalNames = <<"configwatch", "smbmetrics">>
    /\ Cfg.metrics_port = METRICS_PORT

\* C3: with domain_member = true, whatever the clustered flag and the metrics
\* settings, init starts [config, mustjoin] and supplemental starts
\* [configwatch, winbindd]; with domain_member = false neither mustjoin nor
\* winbindd appears anywhere in the layout.
C3_DomainOrder ==
    HasLayout =>
        IF Cfg.domain_member
        THEN /\ Len(InitNames) >= 2
             /\ SubSeq(InitNames, 1, 2) = <<"config", "mustjoin">>
             /\ Len(SupplementalNames) >= 2
             /\ SubSeq(SupplementalNames, 1, 2) = <<"configwatch", "winbindd">>
        ELSE {"mustjoin", "winbindd"}
                \cap (Range(InitNames) \cup Range(SupplementalNames) \cup {PrimaryName})
             = {}

\* C3 witness: a domain member that is also clustered and has the metrics sidecar
C3_Witness ==
    /\ HasLayout /\ Cfg.domain_member /\ Cfg.clustered
    /\ SupplementalNames =
          <<"configwatch", "winbindd", "smbmetrics", "ctdbd", "ctdbNodes">>

CtdbNames == {"ctdbMigrate", "ctdbMustHaveNode", "ctdbd", "ctdbNodes"}

\* the last two elements of a sequence of length >= 2
LastTwo(s) == SubSeq(s, Len(s) - 1, Len(s))

\* C4: with clustered = true the init list ends [ctdbMigrate, ctdbMustHaveNode]
\* and the supplemental list ends [ctdbd, ctdbNodes], behind every domain and
\* metrics entry; with clustered = false none of the four roles appears.
C4_ClusteredTail ==
    HasLayout =>
        IF Cfg.clustered
        THEN /\ Len(InitNames) >= 2
             /\ LastTwo(InitNames) = <<"ctdbMigrate", "ctdbMustHaveNode">>
             /\ Len(SupplementalNames) >= 2
             /\ LastTwo(SupplementalNames) = <<"ctdbd", "ctdbNodes">>
             /\ \A k \in 1..(Len(InitNames) - 2) : InitNames[k] \notin CtdbNames
             /\ \A k \in 1..(Len(SupplementalNames) - 2) :
                    SupplementalNames[k] \notin CtdbNames
        ELSE CtdbNames
                \cap (Range(InitNames) \cup Range(SupplementalNames) \cup {PrimaryName})
             = {}

\* C4 witness: a clustered domain member with the metrics sidecar
C4_Witness ==
    /\ HasLayout /\ Cfg.clustered
    /\ InitNames = <<"config", "mustjoin", "ctdbMigrate", "ctdbMustHaveNode">>
    /\ "smbmetrics" \in Range(SupplementalNames)

\* C5 as amended: for every combination of the flags, smbmetrics is in the
\* supplemental list iff the metrics image is non-empty after stripping
\* surrounding whitespace and the metrics port is > 0; it is never in the init
\* list and never the primary.
C5_MetricsIffStripped ==
    HasLayout =>
        /\ ("smbmetrics" \in Range(SupplementalNames)) <=> MetricsConfigured
        /\ "smbmetrics" \notin Range(InitNames)
        /\ PrimaryName # "smbmetrics"

\* C5 witness: the claim's scenario, clustered with metrics_image = "" and
\* metrics_port = 9922, has no smbmetrics entry
C5_Witness ==
    /\ HasLayout /\ Cfg.clustered
    /\ Cfg.metrics_image = <<>> /\ Cfg.metrics_port = METRICS_PORT
    /\ "smbmetrics" \notin Range(SupplementalNames)

\* C5 as stated: smbmetrics is in the supplemental list iff the metrics image
\* is non-empty and the metrics port is > 0.
C5_MetricsIffNonEmpty ==
    HasLayout =>
        /\ ("smbmetrics" \in Range(SupplementalNames))
              <=> (Cfg.metrics_image # <<>> /\ Cfg.metrics_port > 0)
        /\ "smbmetrics" \notin Range(InitNames)
        /\ PrimaryName # "smbmetrics"

CtdbJsonPath == "etc-samba-container/ctdb.json"
HasCtdbJson == CtdbJsonPath \in DOMAIN disk.files
\* the public_addresses field of the cluster descriptor on disk
PublicAddresses == disk.files[CtdbJsonPath].public_addresses
Networks == smb._network_mapper._networks

\* rec is the resolution of addr against the inventory: the address unchanged,
\* and the interfaces made of the device lists of the destinations the
\* inventory knows, one block per known destination, in destination order
Resolves(addr, rec, inventory) ==
    LET known == SelectSeq(addr.destinations, LAMBDA n : n \in DOMAIN inventory)
        end[j \in 0..Len(known)] ==
            IF j = 0 THEN 0 ELSE end[j - 1] + Len(inventory[known[j]])
    IN  /\ rec.address = addr.address
        /\ Len(rec.interfaces) = end[Len(known)]
        /\ \A j \in 1..Len(known) :
              SubSeq(rec.interfaces, end[j - 1] + 1, end[j]) = inventory[known[j]]

\* C6: every public address of the Config is exported with its address string
\* unchanged and with the concatenation, in destination order, of the device
\* lists of the destinations present in the inventory, duplicates kept; a
\* destination absent from the inventory adds nothing and raises nothing, so
\* every prepare_data_dir call of a clustered instance completes and an address
\* whose destinations are all unknown gets an empty interface list.
C6_ConvertConcatenates ==
    /\ calls.prepares > 0 => (raised = None /\ HasCtdbJson)
    /\ HasCtdbJson =>
          \A k \in 1..Len(Cfg.cluster_public_addrs) :
              /\ k <= Len(PublicAddresses)
              /\ Resolves(Cfg.cluster_public_addrs[k], PublicAddresses[k], Networks)
              /\ (\A i \in 1..Len(Cfg.cluster_public_addrs[k].destinations) :
                      Cfg.cluster_public_addrs[k].destinations[i] \notin DOMAIN Networks)
                    => PublicAddresses[k].interfaces = <<>>

\* C6 witness: an unknown destination in front of a known one, and a known
\* pair resolved in order
C6_Witness ==
    /\ HasCtdbJson
    /\ Networks = [n \in {"netA", "netB"} |->
                      IF n = "netA" THEN <<"eth0">> ELSE <<"eth1", "eth2">>]
    /\ Cfg.cluster_public_addrs =
          << ClusterPublicIP("192.168.76.200", <<"netC", "netB">>),
             ClusterPublicIP("192.168.76.201", <<"netA", "netB">>) >>
    /\ PublicAddresses =
          << [address |-> "192.168.76.200", interfaces |-> <<"eth1", "eth2">>],
             [address |-> "192.168.76.201", interfaces |-> <<"eth0", "eth1", "eth2">>] >>

\* C7: the export written to the cluster descriptor is empty when the Config
\* has no public address and otherwise holds one {address, interfaces} record
\* per address, in configuration order, with that address's resolved devices;
\* an export changes neither the Config nor the cached inventory, and with no
\* load in between a further export gives the same output.
C7_ExportPure ==
    /\ [](HasCtdbJson =>
            /\ Len(PublicAddresses) = Len(Cfg.cluster_public_addrs)
            /\ \A k \in 1..Len(PublicAddresses) :
                  /\ DOMAIN PublicAddresses[k] = {"address", "interfaces"}
                  /\ PublicAddresses[k].address = Cfg.cluster_public_addrs[k].address
                  /\ PublicAddresses[k].interfaces =
                        _convert(Networks, Cfg.cluster_public_addrs[k]).destinations)
    /\ [][ (HasCfg /\ calls'.ctdb_json > calls.ctdb_json) =>
             /\ smb'._instance_cfg = smb._instance_cfg
             /\ smb'._network_mapper = smb._network_mapper
             /\ (HasCtdbJson /\ calls'.fetches = calls.fetches) =>
                    disk'.files[CtdbJsonPath] = disk.files[CtdbJsonPath]
         ]_vars

\* C7 witness: two exports of a Config with an address that resolves to devices
C7_Witness ==
    /\ HasCtdbJson
    /\ calls.ctdb_json = 2
    /\ Len(PublicAddresses) = 2
    /\ PublicAddresses[1].interfaces # <<>>

\* C8 as amended: every prepare_data_dir call on a clustered instance writes
\* both generated files, so after n calls each file has been written n times; a
\* non-clustered instance, or one whose validation fails, writes neither.
C8_WrittenEveryCall ==
    IF HasCfg /\ Cfg.clustered
    THEN /\ calls.ctdb_json = calls.prepares
         /\ calls.smb_conf = calls.prepares
         /\ calls.prepares > 0 => (HasCtdbJson /\ "ctdb/smb.conf" \in DOMAIN disk.files)
    ELSE /\ calls.ctdb_json = 0
         /\ calls.smb_conf = 0
         /\ ~HasCtdbJson
         /\ "ctdb/smb.conf" \notin DOMAIN disk.files

\* C8 witness: a clustered instance prepared twice
C8_Witness ==
    /\ HasCfg /\ Cfg.clustered
    /\ calls.prepares = 2
    /\ calls.ctdb_json = 2
    /\ calls.smb_conf = 2

\* C8 as stated: each of the two generated files is written at most once in
\* the life of the instance.
C8_WrittenAtMostOnce ==
    /\ calls.ctdb_json <= 1
    /\ calls.smb_conf <= 1

\* C9: over every sequence of operations the host network inventory is fetched
\* at most once, and never when the raw config has no cluster public IP.
C9_InventoryFetchedOnce ==
    /\ calls.fetches <= 1
    /\ smb._raw_configs.cluster_public_addrs = <<>> => calls.fetches = 0
    /\ calls.fetches = 0 => Networks = EmptyDict
    /\ calls.fetches = 1 => Networks = host_networks

\* C9 witness: the inventory was fetched and the layout accessors and
\* prepare_data_dir have run since
C9_Witness ==
    /\ calls.fetches = 1
    /\ calls.layouts = 2
    /\ calls.prepares = 2
    /\ raised = None

\* what the message of a configuration error names: a field, or the feature
\* tags it lists
Named(exc) ==
    CASE exc.msg = "invalid instance (cluster) id" -> {"cluster_id"}
      [] exc.msg = "invalid configuration source uri" -> {"config_uri"}
      [] exc.msg = "invalid instance features" -> exc.values
      [] OTHER -> {}

RawFeatures == Range(smb._raw_configs.features)

\* every offending field and feature tag of the raw config
Offending ==
    (IF smb._raw_configs.cluster_id = "" THEN {"cluster_id"} ELSE {})
    \cup (IF smb._raw_configs.config_uri = "" THEN {"config_uri"} ELSE {})
    \cup (RawFeatures \ {"domain", "clustered"})

\* the offences of the first failing check, in the order instance id, source
\* config locator, feature tags
FirstOffending ==
    IF smb._raw_configs.cluster_id = "" THEN {"cluster_id"}
    ELSE IF smb._raw_configs.config_uri = "" THEN {"config_uri"}
    ELSE RawFeatures \ {"domain", "clustered"}

IsConfigError == raised # None /\ raised[1].type = "Error"

\* C10 as amended: raw input with configuration errors never yields a Config,
\* and the one error raised names the first failing check only, in the order
\* instance id, source-config locator, feature tags; a feature tag failure
\* lists every unrecognized tag together.
C10_FirstFailingCheck ==
    /\ Offending # {} => ~HasCfg
    /\ IsConfigError => (Named(raised[1]) = FirstOffending /\ FirstOffending # {})

\* C10 witness: two unrecognized tags are listed together
C10_Witness ==
    /\ IsConfigError
    /\ raised[1].msg = "invalid instance features"
    /\ raised[1].values = {"bogus", "junk"}

\* C10 as stated: the one error names every offending field and value of the
\* raw config.
C10_AggregatedError ==
    IsConfigError => Named(raised[1]) = Offending

\* the last operation was customize_container_endpoints: the list it was given,
\* the list after the call and the endpoints the call appended
IsEndpoints == ret # None /\ ret[1].type = "endpoints"
Given == ret[1].value.given
Now == ret[1].value.now
Added == SubSeq(Now, Len(Given) + 1, Len(Now))

\* C11: customize_container_endpoints leaves every endpoint already in the list
\* in place; it appends an endpoint for the SMB port only if the list had none,
\* and an endpoint for the metrics port only if the Config's metrics_port is
\* > 0 and the list had none for that port; a second call on the resulting
\* list adds nothing and no added port appears twice.
C11_EndpointsAsConfigured ==
    (IsEndpoints /\ HasCfg) =>
        /\ Len(Now) >= Len(Given)
        /\ SubSeq(Now, 1, Len(Given)) = Given
        /\ \A i \in 1..Len(Added) :
              /\ ~has_port(Given, Added[i].port)
              /\ Cardinality({j \in 1..Len(Now) : Now[j].port = Added[i].port}) = 1
              /\ \/ Added[i].port = Cfg.smb_port
                 \/ Cfg.metrics_port > 0 /\ Added[i].port = Cfg.metrics_port
        /\ customize_container_endpoints(State, Now).ret[1].value.now = Now

\* the environment lists in the last return value: the envs of every container
\* made from a role other than the metrics exporter, and the list
\* customize_container_envs appended for the primary role
EnvLists ==
    IF ret = None THEN {}
    ELSE IF ret[1].type = "containers"
    THEN {ret[1].value[k].envs :
            k \in {j \in 1..Len(ret[1].value) : ret[1].value[j].identity # "smbmetrics"}}
    ELSE IF ret[1].type = "extension" /\ ret[1].value.what = "envs_list"
    THEN {ret[1].value.envs}
    ELSE {}

RECURSIVE EqualsAt(_, _)
\* the position, from i on, of the first "=" of a KEY=value entry
EqualsAt(entry, i) ==
    IF i > Len(entry) \/ SubSeq(entry, i, i) = "=" THEN i ELSE EqualsAt(entry, i + 1)

EnvKey(entry) == SubSeq(entry, 1, EqualsAt(entry, 1) - 1)
EnvValue(entry) == SubSeq(entry, EqualsAt(entry, 1) + 1, Len(entry))
EnvKeys(list) == {EnvKey(list[i]) : i \in 1..Len(list)}
\* the values a list gives a variable
EnvValues(list, key) ==
    {EnvValue(list[i]) : i \in {j \in 1..Len(list) : EnvKey(list[j]) = key}}

\* the decimal string of a one-digit number
Decimal(n) == <<"0", "1", "2", "3", "4", "5", "6", "7", "8", "9">>[n + 1]

\* [source_config] + user_sources + ['/etc/samba/container/ctdb.json'] iff clustered
ExpectedUris ==
    <<Cfg.source_config>> \o Cfg.user_sources
        \o (IF Cfg.clustered THEN <<"/etc/samba/container/ctdb.json">> ELSE <<>>)

\* C12: the environment of every containerized role other than the metrics
\* exporter holds the instance id, the JSON list of the config URIs (the source
\* config, the user sources, and the ctdb.json path iff clustered) and the
\* experimental-CTDB marker; it holds the ceph identity variable iff a ceph auth
\* entity is configured; it holds RANK and NODE_NUMBER, both the decimal rank,
\* iff rank >= 0, and none of RANK, RANK_GENERATION, NODE_NUMBER when rank < 0.
C12_Environment ==
    \A e \in EnvLists :
        /\ EnvValues(e, "SAMBA_CONTAINER_ID") = {Cfg.instance_id}
        /\ EnvValues(e, "SAMBACC_CONFIG") = {json_dumps(ExpectedUris)}
        /\ EnvValues(e, "SAMBACC_CTDB") = {"ctdb-is-experimental"}
        /\ "SAMBACC_CEPH_ID" \in EnvKeys(e) <=> Cfg.ceph_config_entity # ""
        /\ IF Cfg.rank >= 0
           THEN /\ EnvValues(e, "RANK") = {Decimal(Cfg.rank)}
                /\ EnvValues(e, "NODE_NUMBER") = {Decimal(Cfg.rank)}
           ELSE EnvKeys(e) \cap {"RANK", "RANK_GENERATION", "NODE_NUMBER"} = {}

\* a clustered instance with user sources, no auth entity and a rank has
\* produced the environment of a samba role
C12_Witness ==
    /\ EnvLists # {}
    /\ Cfg.rank >= 0
    /\ Cfg.clustered
    /\ Cfg.user_sources # <<>>
    /\ Cfg.ceph_config_entity = ""

\* C13: whenever the cluster descriptor is written for a Config with at least
\* one cluster public IP the host network inventory has already been loaded:
\* the validate that stored such a Config fetched the inventory, so from then
\* on the mapper holds the host's networks, and every descriptor on disk lists
\* the interfaces resolved against the host's networks, never against the
\* empty inventory the mapper is made with.
C13_LoadedBeforeExport ==
    /\ (HasCfg /\ Cfg.cluster_public_addrs # <<>>) =>
          /\ calls.fetches = 1
          /\ Networks = host_networks
    /\ (HasCtdbJson /\ Cfg.cluster_public_addrs # <<>>) =>
          \A k \in 1..Len(Cfg.cluster_public_addrs) :
              Resolves(Cfg.cluster_public_addrs[k], PublicAddresses[k], host_networks)

\* C13 witness: prepare_data_dir has written the descriptor of a Config with a
\* public address, and the address got the devices of the host's network
C13_Witness ==
    /\ calls.prepares >= 1
    /\ HasCtdbJson
    /\ Cfg.cluster_public_addrs # <<>>
    /\ host_networks # EmptyDict
    /\ PublicAddresses[1].interfaces = host_networks["netA"]

\* the raw config holds a cluster-public-IP record that is not a dict
Malformed ==
    \E i \in 1..Len(smb._raw_configs.cluster_public_addrs) :
        smb._raw_configs.cluster_public_addrs[i].type # "dict"

\* validate cannot succeed on the raw config
Invalid == Offending # {} \/ Malformed

\* the instance and its data directory are as SMB.__init__ left them
Untouched ==
    /\ ~HasCfg
    /\ smb._files = EmptyDict
    /\ calls.fetches = 0
    /\ Networks = EmptyDict
    /\ ~HasLayout
    /\ heap = 0
    /\ disk = [dirs |-> {}, files |-> EmptyDict]

C15_RankGeneration ==
    \A e \in EnvLists :
        Cfg.rank >= 0 =>
            /\ EnvValues(e, "RANK_GENERATION") = {Decimal(Cfg.rank_generation)}
            /\ EnvValues(e, "RANK") = {Decimal(Cfg.rank)}

====
